---------------------------- MODULE Spec2Model ----------------------------
(***************************************************************************)
(* Model of the Azure Foundry FastAPI backend (main.py, the application    *)
(* that run_dev.py serves as "main:app").                                  *)
(*                                                                         *)
(* A request passes through these stages:                                  *)
(*   arrived  - accepted by the server, nothing evaluated yet              *)
(*   lookup   - token dependency passed; get_azure_openai_client was       *)
(*              handed to the thread pool (it is a plain def)              *)
(*   building - the lru_cache lookup missed, the function body runs        *)
(*   resolved - the client dependency returned a client                    *)
(*   calling  - the handler issued client.chat.completions.create(...);    *)
(*              the call is synchronous inside an async def, so the event  *)
(*              loop is held by this request until it returns              *)
(*   done     - the response was produced                                  *)
(* Steps that run on the event loop need the loop to be free; the two      *)
(* steps of get_azure_openai_client run on worker threads.                 *)
(*                                                                         *)
(* Specifications:                                                         *)
(*   Spec     - one request at a time, arbitrary headers, bodies, results  *)
(*   SpecConc - overlapping requests with plain bodies                     *)
(*   SpecEnv  - one request at a time while the environment changes        *)
(*   SpecBoot - run_dev.main() with the settings of config.py              *)
(***************************************************************************)
EXTENDS Integers, Sequences, FiniteSets, TLC

(***************************************************************************)
(* Bounds of the model.                                                    *)
(***************************************************************************)
MaxReqs == 2        \* request slots that can be in flight together
MaxClients == 3     \* clients constructed during one run
MaxConcClients == 2 \* clients constructed during one run of SpecConc
MaxHistory == 4     \* messages in the chat history of the terminal client

(***************************************************************************)
(* Optional values: None is Python's None or an omitted JSON field.        *)
(***************************************************************************)
None == <<>>
Some(x) == <<x>>

Reqs == 1..MaxReqs
NoReq == 0
NoClient == 0

(***************************************************************************)
(* Program constants.                                                      *)
(***************************************************************************)
DefaultMaxTokens == 1000
DefaultModel == "gpt-4.1"
DefaultTemperature == "0.7"
FixedTopP == "0.95"
FixedFrequencyPenalty == 0
FixedPresencePenalty == 0
DefaultDeployment == "gpt-4.1"
DefaultApiVersion == "2025-01-01-preview"
ChatSystemPrompt == "You are a helpful AI assistant."
GenerateSystemPrompt == "You are a helpful AI assistant focused on generating high-quality text content."
ChatErrorPrefix == "Internal server error:"
GenerateErrorPrefix == "Text generation error:"
ConfigMissingDetail == <<"Azure Foundry configuration is missing. Please check AZURE_FOUNDRY_ENDPOINT and AZURE_FOUNDRY_API_KEY.">>

(***************************************************************************)
(* Inputs.                                                                 *)
(***************************************************************************)
ProtectedEndpoints == {"chat", "generate"}
OpenEndpoints == {"health", "root", "models"}
Endpoints == ProtectedEndpoints \cup OpenEndpoints

\* Authorization header: absent, "Bearer " with an empty credential, or
\* "Bearer <token>".
AuthHeaders == {None, Some(""), Some("test-token-12345"), Some("test-key")}
PlainHeaders == {None, Some(""), Some("test-token-12345")}

Contents == {"hello", "bye"}
MaxTokenInputs == {0, 50, 4001}

\* A JSON body as the caller wrote it: a field is Some(v) or omitted.
\* "stream", "top_p" and the two penalties are not fields of ChatRequest;
\* a caller may still send them. Fractions are written as their decimal
\* text.
SamplingFields == {"temperature", "top_p", "frequency_penalty", "presence_penalty"}

AllBodies ==
    [message : {None} \cup {Some(c) : c \in Contents},
     model : {None, Some("gpt-35-turbo")},
     max_tokens : {None} \cup {Some(n) : n \in MaxTokenInputs},
     temperature : {None, Some("0.2")},
     top_p : {None, Some("0.5")},
     frequency_penalty : {None, Some(1)},
     presence_penalty : {None, Some(1)},
     stream : {None, Some(TRUE)}]

\* The handlers pass each sampling parameter on its own, so a body sets at
\* most one of them.
Bodies ==
    {b \in AllBodies : Cardinality({f \in SamplingFields : b[f] # None}) <= 1}

PlainBodies ==
    {b \in Bodies : /\ b.model = None
                    /\ b.max_tokens = None
                    /\ b.temperature = None
                    /\ b.top_p = None
                    /\ b.frequency_penalty = None
                    /\ b.presence_penalty = None
                    /\ b.stream = None
                    /\ b.message \in {None, Some("hello")}}

NoBody ==
    [message |-> None, model |-> None, max_tokens |-> None,
     temperature |-> None, top_p |-> None, frequency_penalty |-> None,
     presence_penalty |-> None, stream |-> None]

\* The process environment (os.environ after load_dotenv): a variable is
\* unset (None) or holds a string, possibly the empty one.
Environs ==
    [AZURE_FOUNDRY_ENDPOINT : {None, Some(""), Some("https://foundry.example")},
     AZURE_FOUNDRY_API_KEY : {None, Some(""), Some("key")},
     AZURE_FOUNDRY_DEPLOYMENT_NAME : {None, Some(""), Some("gpt-4o")},
     AZURE_FOUNDRY_API_VERSION : {None, Some("2024-06-01")}]

\* Environments the server is started in: endpoint and key set or not.
StartEnvirons ==
    {e \in Environs : /\ e.AZURE_FOUNDRY_ENDPOINT \in {None, Some("https://foundry.example")}
                      /\ e.AZURE_FOUNDRY_API_KEY \in {None, Some("key")}
                      /\ e.AZURE_FOUNDRY_DEPLOYMENT_NAME = None
                      /\ e.AZURE_FOUNDRY_API_VERSION = None}

\* Values a connection setting is changed to while the server runs.
ChangedValue ==
    [AZURE_FOUNDRY_ENDPOINT |-> "https://other.example",
     AZURE_FOUNDRY_API_KEY |-> "key2",
     AZURE_FOUNDRY_API_VERSION |-> "2024-06-01"]

\* os.getenv(name, default)
getenv(env, name, default) ==
    IF env[name] = None THEN default ELSE env[name][1]

\* class Config: the class attributes are evaluated once, when main.py is
\* imported.
Config(env) ==
    [AZURE_FOUNDRY_ENDPOINT |-> getenv(env, "AZURE_FOUNDRY_ENDPOINT", ""),
     AZURE_FOUNDRY_API_KEY |-> getenv(env, "AZURE_FOUNDRY_API_KEY", ""),
     AZURE_FOUNDRY_DEPLOYMENT_NAME |->
         getenv(env, "AZURE_FOUNDRY_DEPLOYMENT_NAME", DefaultDeployment),
     API_VERSION |-> getenv(env, "AZURE_FOUNDRY_API_VERSION", DefaultApiVersion)]

Configs == {Config(e) : e \in StartEnvirons}

\* Settings.__init__ of config.py, the connection settings.
Settings(env) ==
    [AZURE_FOUNDRY_ENDPOINT |-> getenv(env, "AZURE_FOUNDRY_ENDPOINT", ""),
     AZURE_FOUNDRY_API_KEY |-> getenv(env, "AZURE_FOUNDRY_API_KEY", ""),
     AZURE_FOUNDRY_DEPLOYMENT_NAME |->
         getenv(env, "AZURE_FOUNDRY_DEPLOYMENT_NAME", DefaultDeployment),
     AZURE_FOUNDRY_API_VERSION |->
         getenv(env, "AZURE_FOUNDRY_API_VERSION", DefaultApiVersion)]

\* run_dev.py before main() is called, and the value of the variable in
\* a process that does not go through run_dev.py.
BootStart == [stage |-> "start", settings |-> None, errors |-> <<>>]

\* No method of AzureFoundryClient has been called.
FoundryIdle ==
    [stage |-> "idle", method |-> "none", url |-> <<>>, payload |-> <<>>,
     status |-> 0, text |-> "", returned |-> None, raised |-> <<>>,
     logged |-> <<>>]

\* An AzureFoundryClient constructed with endpoint and key.
FoundryClient ==
    [endpoint |-> "https://foundry.example", api_key |-> "key",
     deployment_name |-> DefaultDeployment, api_version |-> "2024-02-15-preview"]

\* What the upstream does with a POST: it answers with a status and a
\* body, or it does not answer within the timeout.
FoundryStatuses == {200, 201, 204, 400, 401, 429, 500}
FoundryTexts == {"{}", "{\"error\": \"quota\"}", "quota exceeded", ""}
FoundryTimeout == [kind |-> "timeout", status_code |-> 0, text |-> ""]
FoundryResponses ==
    [kind : {"response"}, status_code : FoundryStatuses, text : FoundryTexts]
        \cup {FoundryTimeout}
FoundryStops == {None, Some(<<"END">>)}

\* ChatClient.__init__; nothing has been posted yet.
NoPost == [endpoint |-> "none", messages |-> <<>>, prompt |-> ""]
TerminalStart == [chat_history |-> <<>>, mode |-> "chat", payload |-> NoPost]

\* What a POST of the terminal client meets: an answer with a status and,
\* for 200, a JSON body with or without choices, or a failed connection.
TerminalAnswers ==
    {[kind |-> "answer", status |-> 200, choices |-> <<"A0">>],
     [kind |-> "answer", status |-> 200, choices |-> <<>>],
     [kind |-> "answer", status |-> 422, choices |-> <<>>],
     [kind |-> "answer", status |-> 500, choices |-> <<>>],
     [kind |-> "exception", status |-> 0, choices |-> <<>>]}

\* AzureOpenAI(azure_endpoint=..., api_key=..., api_version=...): what a
\* constructed client is bound to.
AzureOpenAI(cfg) ==
    [azure_endpoint |-> cfg.AZURE_FOUNDRY_ENDPOINT,
     api_key |-> cfg.AZURE_FOUNDRY_API_KEY,
     api_version |-> cfg.API_VERSION]
NoBinding == [azure_endpoint |-> "", api_key |-> "", api_version |-> ""]

\* What the upstream call does: a completion, an HTTP error status, or a
\* timeout.
Choice(i, c) == [index |-> i, role |-> "assistant", content |-> c, finish_reason |-> "stop"]
ChoiceLists == {<<>>, <<Choice(0, "A0")>>, <<Choice(0, "A0"), Choice(1, "A1")>>}
Usages == {None, Some([total_tokens |-> 42])}
Completion(ch, u) == [kind |-> "ok", status |-> 200, choices |-> ch, usage |-> u]
StatusError(s) == [kind |-> "status", status |-> s, choices |-> <<>>, usage |-> None]
Timeout == [kind |-> "timeout", status |-> 0, choices |-> <<>>, usage |-> None]
NoResult == [kind |-> "none", status |-> 0, choices |-> <<>>, usage |-> None]
Outcomes ==
    {Completion(ch, u) : ch \in ChoiceLists, u \in Usages}
        \cup {StatusError(500), StatusError(429), Timeout}
PlainOutcomes ==
    {Completion(<<Choice(0, "A0")>>, None), StatusError(500), Timeout}

NoPayload ==
    [model |-> "", messages |-> <<>>, max_tokens |-> None, temperature |-> None,
     top_p |-> "", frequency_penalty |-> 0, presence_penalty |-> 0,
     stream |-> FALSE]
NoResponse == [status |-> 0]
NoRequest == [endpoint |-> "none", auth |-> None, token |-> "", body |-> NoBody]

VARIABLES
    settings_cache,  \* content of the lru_cache of get_settings
    snapshot,     \* what the last call of get_settings returned
    foundry,      \* one call of a method of AzureFoundryClient
    terminal,     \* the ChatClient of scripts/chat_terminal.py
    environ,      \* the process environment
    boot,         \* progress of run_dev.main()
    config,       \* class Config, read from the environment at import
    authReject,   \* status HTTPBearer uses for "Not authenticated"
    pc,           \* stage of each request slot
    req,          \* the request in each slot
    held,         \* client injected into the request
    cache,        \* content of the lru_cache of get_azure_openai_client
    built,        \* number of clients constructed so far
    bound,        \* what each constructed client is bound to
    cleared,      \* clear_azure_client_cache() was called at least once
    failed,       \* clients on which an upstream call raised
    busy,         \* request holding the event loop, or NoReq
    sent,         \* payload of the request's upstream call
    ncalls,       \* upstream calls issued by the request
    result,       \* what the upstream call returned or raised
    resp          \* the HTTP response of the request

vars == <<settings_cache, snapshot, foundry, terminal,
                   environ, boot, config, authReject, pc, req, held, cache, built,
          bound, cleared, failed, busy, sent, ncalls, result, resp>>


(***************************************************************************)
(* Pure parts of the program.                                              *)
(***************************************************************************)

\* class ChatRequest(BaseModel): message is required; model, max_tokens
\* and temperature have defaults; no field has a range constraint; unknown
\* fields such as "stream" or "top_p" are dropped.
ValidationErrors(body) ==
    IF body.message = None THEN {"message"} ELSE {}

ChatRequest(body) ==
    [message |-> body.message[1],
     model |-> IF body.model = None THEN Some(DefaultModel) ELSE body.model,
     max_tokens |-> IF body.max_tokens = None
                       THEN Some(DefaultMaxTokens)
                       ELSE body.max_tokens,
     temperature |-> IF body.temperature = None
                        THEN Some(DefaultTemperature)
                        ELSE body.temperature]

\* security = HTTPBearer(): with auto_error left on, a request without an
\* Authorization header or with an empty credential is answered by the
\* dependency itself ("Not authenticated") and verify_token is not called.
HTTPBearer(header) ==
    IF header = None \/ header[1] = ""
        THEN [ok |-> FALSE, credentials |-> "", detail |-> <<"Not authenticated">>]
        ELSE [ok |-> TRUE, credentials |-> header[1], detail |-> <<>>]

\* A guard that compares the credential with an expected token.
verify_token_expected(credentials) ==
    IF credentials # "test-token-12345"
        THEN [ok |-> FALSE, status |-> 401, token |-> "",
              detail |-> <<"Invalid authentication credentials">>]
        ELSE [ok |-> TRUE, status |-> 200, token |-> credentials, detail |-> <<>>]

\* async def verify_token(credentials)
verify_token(credentials) ==
    IF credentials = ""
        THEN [ok |-> FALSE, status |-> 401, token |-> "",
              detail |-> <<"Invalid authentication credentials">>]
        ELSE [ok |-> TRUE, status |-> 200, token |-> credentials, detail |-> <<>>]

\* The two messages in the wrong order.
BuildMessagesSwapped(prompt, message) ==
    << [role |-> "user", content |-> message],
       [role |-> "system", content |-> prompt] >>

\* messages = [{"role": "system", ...}, {"role": "user", "content": request.message}]
BuildMessages(prompt, message) ==
    << [role |-> "system", content |-> prompt],
       [role |-> "user", content |-> message] >>

\* The call with the caller's wish to stream passed on.
CreateArgsStreaming(cfg, prompt, request) ==
    [model |-> cfg.AZURE_FOUNDRY_DEPLOYMENT_NAME,
     messages |-> << [role |-> "system", content |-> prompt],
                     [role |-> "user", content |-> request.message] >>,
     max_tokens |-> request.max_tokens,
     temperature |-> request.temperature,
     top_p |-> FixedTopP,
     frequency_penalty |-> FixedFrequencyPenalty,
     presence_penalty |-> FixedPresencePenalty,
     stream |-> TRUE]

\* The keyword arguments of client.chat.completions.create(...).
CreateArgs(cfg, prompt, request) ==
    [model |-> cfg.AZURE_FOUNDRY_DEPLOYMENT_NAME,
     messages |-> BuildMessages(prompt, request.message),
     max_tokens |-> request.max_tokens,
     temperature |-> request.temperature,
     top_p |-> FixedTopP,
     frequency_penalty |-> FixedFrequencyPenalty,
     presence_penalty |-> FixedPresencePenalty,
     stream |-> FALSE]

\* str(e) of the exception the upstream call raises: the message carries
\* the HTTP status of the upstream answer, as in
\* raise Exception(f"Azure Foundry API error: {response.status_code}").
ExceptionMessage(outcome) ==
    IF outcome.kind = "status"
        THEN <<"Azure Foundry API error:", ToString(outcome.status)>>
        ELSE <<"Request timed out.">>

\* The extraction without the guard on completion.usage.
ExtractResponseUnguarded(completion) ==
    IF Len(completion.choices) = 0
        THEN [raised |-> TRUE, message |-> <<"list index out of range">>,
              text |-> "", tokens_used |-> None]
        ELSE IF completion.usage = None
            THEN [raised |-> TRUE,
                  message |-> <<"'NoneType' object has no attribute 'total_tokens'">>,
                  text |-> "", tokens_used |-> None]
            ELSE [raised |-> FALSE, message |-> <<>>,
                  text |-> completion.choices[1].content,
                  tokens_used |-> Some(completion.usage[1].total_tokens)]

\* completion.choices[0].message.content and
\* completion.usage.total_tokens if completion.usage else None
ExtractResponse(completion) ==
    IF Len(completion.choices) = 0
        THEN [raised |-> TRUE, message |-> <<"list index out of range">>,
              text |-> "", tokens_used |-> None]
        ELSE [raised |-> FALSE, message |-> <<>>,
              text |-> completion.choices[1].content,
              tokens_used |-> IF completion.usage = None
                                 THEN None
                                 ELSE Some(completion.usage[1].total_tokens)]

\* request.model or config.AZURE_FOUNDRY_DEPLOYMENT_NAME
ResponseModel(cfg, request) ==
    IF request.model = None \/ request.model[1] = ""
        THEN cfg.AZURE_FOUNDRY_DEPLOYMENT_NAME
        ELSE request.model[1]

\* A detail that leaves the exception text out.
ErrorDetailGeneric(prefix, message) == <<prefix>>

\* HTTPException(status_code=500, detail=f"<prefix> {str(e)}")
ErrorDetail(prefix, message) == <<prefix>> \o message

HTTPException(status, detail) == [status |-> status, detail |-> detail]

ChatResponse(cfg, request, extracted) ==
    [status |-> 200,
     response |-> extracted.text,
     model |-> ResponseModel(cfg, request),
     tokens_used |-> extracted.tokens_used]

\* A generate answer in the layout of a chat completion.
GenerateResponseChoices(cfg, request, extracted) ==
    [status |-> 200,
     choices |-> << [index |-> 0, text |-> extracted.text] >>,
     model |-> ResponseModel(cfg, request),
     tokens_used |-> extracted.tokens_used,
     generation_type |-> "text_completion"]

GenerateResponse(cfg, request, extracted) ==
    [status |-> 200,
     generated_text |-> extracted.text,
     model |-> ResponseModel(cfg, request),
     tokens_used |-> extracted.tokens_used,
     generation_type |-> "text_completion"]

RootResponse ==
    [status |-> 200,
     body |-> [message |-> "Azure Foundry API is running", docs |-> "/docs"]]

ModelInfo(name, description, endpoint) ==
    [name |-> name, description |-> description, endpoint |-> endpoint,
     status |-> "active"]

\* The catalog with its entries in the other order.
ModelCatalogReversed(cfg) ==
    << ModelInfo("gpt-35-turbo", "GPT-3.5 Turbo for faster responses",
                 <<cfg.AZURE_FOUNDRY_ENDPOINT, "/openai/deployments/",
                   "gpt-35-turbo">>),
       ModelInfo("gpt-4.1", "gpt-4.1 model for advanced text generation",
                 <<cfg.AZURE_FOUNDRY_ENDPOINT, "/openai/deployments/",
                   cfg.AZURE_FOUNDRY_DEPLOYMENT_NAME>>) >>

\* models = [ModelInfo(name="gpt-4.1", ...), ModelInfo(name="gpt-35-turbo", ...)]
ModelCatalog(cfg) ==
    << ModelInfo("gpt-4.1", "gpt-4.1 model for advanced text generation",
                 <<cfg.AZURE_FOUNDRY_ENDPOINT, "/openai/deployments/",
                   cfg.AZURE_FOUNDRY_DEPLOYMENT_NAME>>),
       ModelInfo("gpt-35-turbo", "GPT-3.5 Turbo for faster responses",
                 <<cfg.AZURE_FOUNDRY_ENDPOINT, "/openai/deployments/",
                   "gpt-35-turbo">>) >>

SystemPrompt(endpoint) ==
    IF endpoint = "chat" THEN ChatSystemPrompt ELSE GenerateSystemPrompt

\* return ChatResponse(...) in chat_completion, return {...} in generate_text
SuccessResponse(endpoint, cfg, request, extracted) ==
    IF endpoint = "chat"
        THEN ChatResponse(cfg, request, extracted)
        ELSE GenerateResponse(cfg, request, extracted)

ErrorPrefix(endpoint) ==
    IF endpoint = "chat" THEN ChatErrorPrefix ELSE GenerateErrorPrefix

\* The fields validate_required_settings looks at.
RequiredFields ==
    {"AZURE_FOUNDRY_ENDPOINT", "AZURE_FOUNDRY_API_KEY", "AZURE_FOUNDRY_DEPLOYMENT_NAME"}

\* A validation that does not look at the deployment name.
validate_required_settings_two(settings) ==
    (IF settings.AZURE_FOUNDRY_ENDPOINT = ""
         THEN << <<"AZURE_FOUNDRY_ENDPOINT", "is required">> >> ELSE <<>>)
    \o (IF settings.AZURE_FOUNDRY_API_KEY = ""
            THEN << <<"AZURE_FOUNDRY_API_KEY", "is required">> >> ELSE <<>>)

\* Settings.validate_required_settings: one message is appended for each
\* falsy field, in this order, and the list is returned. A message
\* f"{name} is required" is the pair of the name and the fixed text.
validate_required_settings(settings) ==
    (IF settings.AZURE_FOUNDRY_ENDPOINT = ""
         THEN << <<"AZURE_FOUNDRY_ENDPOINT", "is required">> >> ELSE <<>>)
    \o (IF settings.AZURE_FOUNDRY_API_KEY = ""
            THEN << <<"AZURE_FOUNDRY_API_KEY", "is required">> >> ELSE <<>>)
    \o (IF settings.AZURE_FOUNDRY_DEPLOYMENT_NAME = ""
            THEN << <<"AZURE_FOUNDRY_DEPLOYMENT_NAME", "is required">> >> ELSE <<>>)

(***************************************************************************)
(* Initial state: the process has imported main.py; no request yet.        *)
(***************************************************************************)
Imported ==
    /\ settings_cache = None
    /\ snapshot = None
    /\ foundry = FoundryIdle
    /\ terminal = TerminalStart
    /\ boot = BootStart
    /\ config = Config(environ)
    /\ pc = [r \in Reqs |-> "none"]
    /\ req = [r \in Reqs |-> NoRequest]
    /\ held = [r \in Reqs |-> NoClient]
    /\ cache = NoClient
    /\ built = 0
    /\ bound = [c \in 1..MaxClients |-> NoBinding]
    /\ cleared = FALSE
    /\ failed = {}
    /\ busy = NoReq
    /\ sent = [r \in Reqs |-> NoPayload]
    /\ ncalls = [r \in Reqs |-> 0]
    /\ result = [r \in Reqs |-> NoResult]
    /\ resp = [r \in Reqs |-> NoResponse]

Init ==
    /\ environ \in StartEnvirons
    /\ authReject \in {401, 403}
    /\ Imported

\* A health check that reports on the upstream configuration.
HealthResponseChecked ==
    IF config.AZURE_FOUNDRY_ENDPOINT = "" \/ cache = NoClient
        THEN [status |-> 503, body |-> [status |-> "unhealthy", version |-> "1.0.0"]]
        ELSE [status |-> 200, body |-> [status |-> "healthy", version |-> "1.0.0"]]

\* HealthResponse(status="healthy", timestamp=..., version="1.0.0")
HealthResponse == [status |-> 200, body |-> [status |-> "healthy", version |-> "1.0.0"]]

\* A request that keeps its reference to the client after it was answered.
RespondHolding(r, response) ==
    /\ pc' = [pc EXCEPT ![r] = "done"]
    /\ resp' = [resp EXCEPT ![r] = response]
    /\ UNCHANGED held

\* The request ends with this response; the handler's reference to the
\* injected client ends with it.
Respond(r, response) ==
    /\ pc' = [pc EXCEPT ![r] = "done"]
    /\ resp' = [resp EXCEPT ![r] = response]
    /\ held' = [held EXCEPT ![r] = NoClient]

\* A clear that leaves the cached client in place.
KeepCache == cache

\* get_azure_openai_client.cache_clear()
clear_azure_client_cache == NoClient

\* A request for one of the routes reaches the server.
Arrive(r, endpoint) ==
    /\ pc[r] = "none"
    /\ pc' = [pc EXCEPT ![r] = "arrived"]
    /\ req' = [req EXCEPT ![r] = [endpoint |-> endpoint, auth |-> None,
                                  token |-> "", body |-> NoBody]]
    /\ UNCHANGED <<settings_cache, snapshot, foundry, terminal,
                   environ, boot, config, authReject, bound, cleared,
                   held, cache, built, failed, busy,
                   sent, ncalls, result, resp>>

\* GET /health
health_check(r) ==
    /\ pc[r] = "arrived" /\ req[r].endpoint = "health" /\ busy = NoReq
    /\ Respond(r, HealthResponse)
    /\ UNCHANGED <<settings_cache, snapshot, foundry, terminal,
                   environ, boot, config, authReject, bound, cleared,
                   req, cache, built, failed, busy,
                   sent, ncalls, result>>

\* GET /
root(r) ==
    /\ pc[r] = "arrived" /\ req[r].endpoint = "root" /\ busy = NoReq
    /\ Respond(r, RootResponse)
    /\ UNCHANGED <<settings_cache, snapshot, foundry, terminal,
                   environ, boot, config, authReject, bound, cleared,
                   req, cache, built, failed, busy,
                   sent, ncalls, result>>

\* A model listing that also empties the client cache.
list_models_clearing(r) ==
    /\ pc[r] = "arrived" /\ req[r].endpoint = "models" /\ busy = NoReq
    /\ Respond(r, [status |-> 200, body |-> ModelCatalog(config)])
    /\ cache' = NoClient
    /\ UNCHANGED <<settings_cache, snapshot, foundry, terminal,
                   environ, boot, config, authReject, bound, cleared,
                   req, built, failed, busy,
                   sent, ncalls, result>>

\* GET /api/v1/models
list_models(r) ==
    /\ pc[r] = "arrived" /\ req[r].endpoint = "models" /\ busy = NoReq
    /\ Respond(r, [status |-> 200, body |-> ModelCatalog(config)])
    /\ UNCHANGED <<settings_cache, snapshot, foundry, terminal,
                   environ, boot, config, authReject, bound, cleared,
                   req, cache, built, failed, busy,
                   sent, ncalls, result>>

\* The two dependencies in the other order: the client factory's check of
\* the configuration comes before the token guard.
ResolveTokenAfterClient(r, header) ==
    /\ pc[r] = "arrived" /\ req[r].endpoint \in ProtectedEndpoints
    /\ busy = NoReq
    /\ LET bearer == HTTPBearer(header)
           checked == verify_token(bearer.credentials)
       IN  /\ req' = [req EXCEPT ![r].auth = header, ![r].token = checked.token]
           /\ IF config.AZURE_FOUNDRY_ENDPOINT = "" \/ config.AZURE_FOUNDRY_API_KEY = ""
                  THEN Respond(r, HTTPException(500, ConfigMissingDetail))
                  ELSE IF ~bearer.ok
                      THEN Respond(r, HTTPException(authReject, bearer.detail))
                      ELSE IF ~checked.ok
                          THEN Respond(r, HTTPException(checked.status, checked.detail))
                          ELSE /\ pc' = [pc EXCEPT ![r] = "lookup"]
                               /\ UNCHANGED <<resp, held>>
    /\ UNCHANGED <<settings_cache, snapshot, foundry, terminal,
                   environ, boot, config, authReject, bound, cleared,
                   cache, built, failed, busy,
                   sent, ncalls, result>>

\* token: str = Depends(verify_token), the first dependency of both
\* protected routes; verify_token itself depends on security.
ResolveToken(r, header) ==
    /\ pc[r] = "arrived" /\ req[r].endpoint \in ProtectedEndpoints
    /\ busy = NoReq
    /\ LET bearer == HTTPBearer(header)
           checked == verify_token(bearer.credentials)
       IN  /\ req' = [req EXCEPT ![r].auth = header, ![r].token = checked.token]
           /\ IF ~bearer.ok
                  THEN Respond(r, HTTPException(authReject, bearer.detail))
                  ELSE IF ~checked.ok
                      THEN Respond(r, HTTPException(checked.status, checked.detail))
                      ELSE /\ pc' = [pc EXCEPT ![r] = "lookup"]
                           /\ UNCHANGED <<resp, held>>
    /\ UNCHANGED <<settings_cache, snapshot, foundry, terminal,
                   environ, boot, config, authReject, bound, cleared,
                   cache, built, failed, busy,
                   sent, ncalls, result>>

\* client = Depends(get_azure_openai_client): the lru_cache wrapper looks
\* the (argument-less) call up; a hit returns the cached client.
CacheLookup(r) ==
    /\ pc[r] = "lookup"
    /\ IF cache # NoClient
           THEN /\ held' = [held EXCEPT ![r] = cache]
                /\ pc' = [pc EXCEPT ![r] = "resolved"]
           ELSE /\ pc' = [pc EXCEPT ![r] = "building"]
                /\ UNCHANGED held
    /\ UNCHANGED <<settings_cache, snapshot, foundry, terminal,
                   environ, boot, config, authReject, bound, cleared,
                   req, cache, built, failed, busy,
                   sent, ncalls, result, resp>>

\* The check on the key alone.
ConfigurationMissingKeyOnly(cfg) ==
    cfg.AZURE_FOUNDRY_API_KEY = ""

\* if not config.AZURE_FOUNDRY_ENDPOINT or not config.AZURE_FOUNDRY_API_KEY
ConfigurationMissing(cfg) ==
    cfg.AZURE_FOUNDRY_ENDPOINT = "" \/ cfg.AZURE_FOUNDRY_API_KEY = ""

\* A store in which the last writer wins.
lru_cache_overwrite(cached, client) == client

\* The lru_cache wrapper after the wrapped function returned: the result
\* is stored unless the key was stored by another thread meanwhile.
lru_cache_store(cached, client) ==
    IF cached = NoClient THEN client ELSE cached

\* The body of get_azure_openai_client after a miss. An exception is not
\* cached; a constructed client is bound to the attributes of config, is
\* stored by the wrapper, and is returned to this request.
get_azure_openai_client(r, constructed) ==
    /\ pc[r] = "building"
    /\ IF ConfigurationMissing(config)
           THEN /\ Respond(r, HTTPException(500, ConfigMissingDetail))
                /\ UNCHANGED <<cache, built, bound>>
           ELSE IF ~constructed
               THEN /\ Respond(r, HTTPException(500,
                           <<"Failed to initialize Azure OpenAI client:", "error">>))
                    /\ UNCHANGED <<cache, built, bound>>
               ELSE /\ built < MaxClients
                    /\ built' = built + 1
                    /\ bound' = [bound EXCEPT ![built + 1] = AzureOpenAI(config)]
                    /\ held' = [held EXCEPT ![r] = built + 1]
                    /\ cache' = lru_cache_store(cache, built + 1)
                    /\ pc' = [pc EXCEPT ![r] = "resolved"]
                    /\ UNCHANGED resp
    /\ UNCHANGED <<settings_cache, snapshot, foundry, terminal,
                   environ, boot, config, authReject, cleared, req, failed, busy,
                   sent, ncalls, result>>

\* request: ChatRequest - the body is validated once the dependencies are
\* solved; a body that does not fit the model is answered with 422 and the
\* handler does not run.
RequestValidation(r, body) ==
    /\ pc[r] = "resolved" /\ busy = NoReq
    /\ ValidationErrors(body) # {}
    /\ req' = [req EXCEPT ![r].body = body]
    /\ Respond(r, HTTPException(422, <<"Field required">>))
    /\ UNCHANGED <<settings_cache, snapshot, foundry, terminal,
                   environ, boot, config, authReject, bound, cleared,
                   cache, built, failed, busy,
                   sent, ncalls, result>>

\* The handler up to and including the upstream call: the call is issued
\* with the injected client and holds the event loop.
IssueCall(r, body) ==
    /\ pc[r] = "resolved" /\ busy = NoReq
    /\ ValidationErrors(body) = {}
    /\ req' = [req EXCEPT ![r].body = body]
    /\ sent' = [sent EXCEPT ![r] =
                    CreateArgs(config, SystemPrompt(req[r].endpoint), ChatRequest(body))]
    /\ ncalls' = [ncalls EXCEPT ![r] = @ + 1]
    /\ busy' = r
    /\ pc' = [pc EXCEPT ![r] = "calling"]
    /\ UNCHANGED <<settings_cache, snapshot, foundry, terminal,
                   environ, boot, config, authReject, bound, cleared,
                   held, cache, built, failed, result, resp>>

\* An except path that sends the request back to issue the call again.
ExceptPathRetry(r, message) ==
    /\ cache' = clear_azure_client_cache
    /\ cleared' = TRUE
    /\ pc' = [pc EXCEPT ![r] = "resolved"]
    /\ UNCHANGED <<resp, held>>

\* except Exception as e: clear the cache, raise HTTPException(500, ...)
ExceptPath(r, message) ==
    /\ cache' = clear_azure_client_cache
    /\ cleared' = TRUE
    /\ Respond(r, HTTPException(500, ErrorDetail(ErrorPrefix(req[r].endpoint), message)))

\* The rest of a handler without its try/except: an exception leaves the
\* handler and the application answers with its generic error.
FinishCallUncaught(r, outcome) ==
    /\ pc[r] = "calling" /\ busy = r
    /\ result' = [result EXCEPT ![r] = outcome]
    /\ busy' = NoReq
    /\ IF outcome.kind # "ok" \/ ExtractResponse(outcome).raised
           THEN Respond(r, HTTPException(500, <<"Internal server error">>))
           ELSE Respond(r, SuccessResponse(req[r].endpoint, config,
                                           ChatRequest(req[r].body),
                                           ExtractResponse(outcome)))
    /\ UNCHANGED <<settings_cache, snapshot, foundry, terminal,
                   environ, boot, config, authReject, bound, cleared, cache,
                   failed, req, built, sent, ncalls>>

\* The rest of the handler, once the upstream call returned or raised.
FinishCall(r, outcome) ==
    /\ pc[r] = "calling" /\ busy = r
    /\ result' = [result EXCEPT ![r] = outcome]
    /\ busy' = NoReq
    /\ IF outcome.kind # "ok"
           THEN /\ ExceptPath(r, ExceptionMessage(outcome))
                /\ failed' = failed \cup {held[r]}
           ELSE LET extracted == ExtractResponse(outcome)
                IN  /\ IF extracted.raised
                           THEN ExceptPath(r, extracted.message)
                           ELSE /\ Respond(r, SuccessResponse(req[r].endpoint, config,
                                                ChatRequest(req[r].body), extracted))
                                /\ UNCHANGED <<cache, cleared>>
                    /\ UNCHANGED failed
    /\ UNCHANGED <<settings_cache, snapshot, foundry, terminal,
                   environ, boot, config, authReject, bound, req, built, sent, ncalls>>

\* POST /api/v1/chat/completions
chat_completion(r, body) ==
    /\ req[r].endpoint = "chat"
    /\ IssueCall(r, body)

chat_completion_return(r, outcome) ==
    /\ req[r].endpoint = "chat"
    /\ FinishCall(r, outcome)

\* POST /api/v1/generate
generate_text(r, body) ==
    /\ req[r].endpoint = "generate"
    /\ IssueCall(r, body)

generate_text_return(r, outcome) ==
    /\ req[r].endpoint = "generate"
    /\ FinishCall(r, outcome)

\* The response was sent; the slot is free for the next request.
Forget(r) ==
    /\ pc[r] = "done"
    /\ pc' = [pc EXCEPT ![r] = "none"]
    /\ req' = [req EXCEPT ![r] = NoRequest]
    /\ sent' = [sent EXCEPT ![r] = NoPayload]
    /\ ncalls' = [ncalls EXCEPT ![r] = 0]
    /\ result' = [result EXCEPT ![r] = NoResult]
    /\ resp' = [resp EXCEPT ![r] = NoResponse]
    /\ UNCHANGED <<settings_cache, snapshot, foundry, terminal,
                   environ, boot, config, authReject, bound, cleared,
                   held, cache, built, failed, busy>>

\* Every step request slot r can take, with headers from H, bodies from B
\* and upstream outcomes from O.
Step(r, H, B, O) ==
    \/ \E endpoint \in Endpoints : Arrive(r, endpoint)
    \/ health_check(r)
    \/ root(r)
    \/ list_models(r)
    \/ \E header \in H : ResolveToken(r, header)
    \/ CacheLookup(r)
    \/ \E constructed \in BOOLEAN : get_azure_openai_client(r, constructed)
    \/ \E body \in B : RequestValidation(r, body)
    \/ \E body \in B : chat_completion(r, body)
    \/ \E outcome \in O : chat_completion_return(r, outcome)
    \/ \E body \in B : generate_text(r, body)
    \/ \E outcome \in O : generate_text_return(r, outcome)
    \/ Forget(r)

\* One client at a time sending arbitrary bodies.
Next == Step(1, AuthHeaders, Bodies, Outcomes)

Spec == Init /\ [][Next]_vars

\* A connection setting is assigned a new value in the environment of the
\* running process.
SetEnv(name) ==
    /\ environ[name] # Some(ChangedValue[name])
    /\ environ' = [environ EXCEPT ![name] = Some(ChangedValue[name])]
    /\ UNCHANGED <<settings_cache, snapshot, foundry, terminal,
                   boot, config, authReject, pc, req, held, cache, built,
                   bound, cleared, failed, busy, sent, ncalls, result, resp>>

\* One client at a time with plain requests, while the environment of the
\* process changes.
InitEnv ==
    /\ Init
    /\ authReject = 401

NextEnv ==
    \/ Step(1, PlainHeaders, PlainBodies, PlainOutcomes)
    \/ \E name \in DOMAIN ChangedValue : SetEnv(name)

SpecEnv == InitEnv /\ [][NextEnv]_vars

(***************************************************************************)
(* run_dev.py: main() loads the settings, validates them and either        *)
(* returns or starts the server. The server is not running meanwhile and   *)
(* its variables keep their initial values.                                *)
(***************************************************************************)
\* A get_settings without its cache: every call reads the environment.
get_settings_uncached(cached, env) == Settings(env)

\* @lru_cache() def get_settings(): a hit returns the cached Settings
\* object, a miss constructs Settings() from the environment.
lru_cache_get_settings(cached, env) ==
    IF cached = None THEN Settings(env) ELSE cached[1]

\* settings = get_settings()
get_settings ==
    /\ boot.stage = "start"
    /\ LET settings == lru_cache_get_settings(settings_cache, environ)
       IN  /\ boot' = [boot EXCEPT !.stage = "loaded", !.settings = Some(settings)]
           /\ settings_cache' = Some(settings)
           /\ snapshot' = Some(settings)
    /\ UNCHANGED <<foundry, terminal,
                   environ, config, authReject, pc, req, held, cache, built,
                   bound, cleared, failed, busy, sent, ncalls, result, resp>>

\* errors = settings.validate_required_settings()
run_dev_validate ==
    /\ boot.stage = "loaded"
    /\ boot' = [boot EXCEPT !.stage = "validated",
                            !.errors = validate_required_settings(boot.settings[1])]
    /\ UNCHANGED <<settings_cache, snapshot, foundry, terminal,
                   environ, config, authReject, pc, req, held, cache, built,
                   bound, cleared, failed, busy, sent, ncalls, result, resp>>

\* if errors: print them and return
run_dev_return ==
    /\ boot.stage = "validated"
    /\ boot.errors # <<>>
    /\ boot' = [boot EXCEPT !.stage = "returned"]
    /\ UNCHANGED <<settings_cache, snapshot, foundry, terminal,
                   environ, config, authReject, pc, req, held, cache, built,
                   bound, cleared, failed, busy, sent, ncalls, result, resp>>

\* uvicorn.run("main:app", ...)
run_dev_serve ==
    /\ boot.stage = "validated"
    /\ boot.errors = <<>>
    /\ boot' = [boot EXCEPT !.stage = "serving"]
    /\ UNCHANGED <<settings_cache, snapshot, foundry, terminal,
                   environ, config, authReject, pc, req, held, cache, built,
                   bound, cleared, failed, busy, sent, ncalls, result, resp>>

InitBoot ==
    /\ environ \in Environs
    /\ authReject = 401
    /\ Imported

NextBoot ==
    \/ get_settings
    \/ run_dev_validate
    \/ run_dev_return
    \/ run_dev_serve

SpecBoot == InitBoot /\ [][NextBoot]_vars

(***************************************************************************)
(* azure_foundry_client.py: the three methods of AzureFoundryClient. Each  *)
(* builds its payload, posts it and turns the upstream answer into a       *)
(* returned value or a raised exception.                                   *)
(***************************************************************************)
\* _get_url
_get_url(self, endpoint_path) ==
    <<self.endpoint, "/openai/deployments/", self.deployment_name, "/",
      endpoint_path, "?api-version=", self.api_version>>

\* response.json(): the parsed body, or nothing when the text is not JSON.
json(text) ==
    IF text = "{}" THEN Some(<<"object">>)
    ELSE IF text = "{\"error\": \"quota\"}" THEN Some(<<"object", "error", "quota">>)
    ELSE None

\* A method end that returns response.json() whatever the status is.
FoundryResultUnchecked(self, method, url, payload, response) ==
    IF response.kind = "timeout"
        THEN [stage |-> "raised", method |-> method, url |-> url,
              payload |-> payload, status |-> 0, text |-> "", returned |-> None,
              raised |-> <<"TimeoutException">>, logged |-> <<>>]
    ELSE IF json(response.text) = None
        THEN [stage |-> "raised", method |-> method, url |-> url,
              payload |-> payload, status |-> response.status_code,
              text |-> response.text, returned |-> None,
              raised |-> <<"JSONDecodeError">>, logged |-> <<>>]
    ELSE [stage |-> "returned", method |-> method, url |-> url,
          payload |-> payload, status |-> response.status_code,
          text |-> response.text, returned |-> json(response.text),
          raised |-> <<>>, logged |-> <<>>]

\* The end of each method: response = await client.post(..., timeout=30.0);
\* if response.status_code != 200: logger.error(...); raise Exception(...);
\* return response.json()
FoundryResult(self, method, url, payload, response) ==
    IF response.kind = "timeout"
        THEN [stage |-> "raised", method |-> method, url |-> url,
              payload |-> payload, status |-> 0, text |-> "", returned |-> None,
              raised |-> <<"TimeoutException">>, logged |-> <<>>]
    ELSE IF response.status_code # 200
        THEN [stage |-> "raised", method |-> method, url |-> url,
              payload |-> payload, status |-> response.status_code,
              text |-> response.text, returned |-> None,
              raised |-> <<"Azure Foundry API error:",
                           ToString(response.status_code)>>,
              logged |-> <<"Azure Foundry API error:",
                           ToString(response.status_code), "-", response.text>>]
    ELSE IF json(response.text) = None
        THEN [stage |-> "raised", method |-> method, url |-> url,
              payload |-> payload, status |-> response.status_code,
              text |-> response.text, returned |-> None,
              raised |-> <<"JSONDecodeError">>, logged |-> <<>>]
    ELSE [stage |-> "returned", method |-> method, url |-> url,
          payload |-> payload, status |-> response.status_code,
          text |-> response.text, returned |-> json(response.text),
          raised |-> <<>>, logged |-> <<>>]

\* AzureFoundryClient.chat_completion(messages, stop=...)
foundry_chat_completion(messages, stop, response) ==
    /\ foundry' = FoundryResult(FoundryClient, "chat_completion",
                      _get_url(FoundryClient, "chat/completions"),
                      [messages |-> messages, max_tokens |-> DefaultMaxTokens,
                       temperature |-> DefaultTemperature, top_p |-> "1.0",
                       frequency_penalty |-> "0.0", presence_penalty |-> "0.0",
                       stop |-> stop],
                      response)
    /\ UNCHANGED <<settings_cache, snapshot, terminal, environ, boot, config,
                   authReject, pc, req, held, cache, built, bound, cleared,
                   failed, busy, sent, ncalls, result, resp>>

\* AzureFoundryClient.completions(prompt, stop=...)
foundry_completions(prompt, stop, response) ==
    /\ foundry' = FoundryResult(FoundryClient, "completions",
                      _get_url(FoundryClient, "completions"),
                      [prompt |-> prompt, max_tokens |-> DefaultMaxTokens,
                       temperature |-> DefaultTemperature, top_p |-> "1.0",
                       frequency_penalty |-> "0.0", presence_penalty |-> "0.0",
                       stop |-> stop],
                      response)
    /\ UNCHANGED <<settings_cache, snapshot, terminal, environ, boot, config,
                   authReject, pc, req, held, cache, built, bound, cleared,
                   failed, busy, sent, ncalls, result, resp>>

\* AzureFoundryClient.embeddings(input_text)
foundry_embeddings(input_text, response) ==
    /\ foundry' = FoundryResult(FoundryClient, "embeddings",
                      _get_url(FoundryClient, "embeddings"),
                      [input |-> input_text, model |-> "text-embedding-ada-002"],
                      response)
    /\ UNCHANGED <<settings_cache, snapshot, terminal, environ, boot, config,
                   authReject, pc, req, held, cache, built, bound, cleared,
                   failed, busy, sent, ncalls, result, resp>>

InitFoundry ==
    /\ Init
    /\ authReject = 401

NextFoundry ==
    \E response \in FoundryResponses :
        \/ \E c \in Contents, stop \in FoundryStops :
               foundry_chat_completion(<<[role |-> "user", content |-> c]>>,
                                       stop, response)
        \/ \E c \in Contents, stop \in FoundryStops :
               foundry_completions(c, stop, response)
        \/ \E c \in Contents : foundry_embeddings(c, response)

SpecFoundry == InitFoundry /\ [][NextFoundry]_vars

(***************************************************************************)
(* app/dependencies.py with config.py: the client factory that takes its   *)
(* connection settings from get_settings(), called again and again while   *)
(* the environment changes and the two caches are cleared.                 *)
(***************************************************************************)
\* AzureOpenAI(azure_endpoint=settings..., api_key=..., api_version=...)
AzureOpenAIForSettings(settings) ==
    [azure_endpoint |-> settings.AZURE_FOUNDRY_ENDPOINT,
     api_key |-> settings.AZURE_FOUNDRY_API_KEY,
     api_version |-> settings.AZURE_FOUNDRY_API_VERSION]

\* Depends(get_azure_openai_client) of app/dependencies.py: a hit of the
\* client cache returns at once; a miss calls get_settings(), raises when
\* endpoint or key is empty or the constructor fails, and otherwise caches
\* the client it constructed.
dependencies_get_azure_openai_client(constructed) ==
    /\ cache = NoClient
    /\ LET settings == lru_cache_get_settings(settings_cache, environ)
       IN  /\ settings_cache' = Some(settings)
           /\ snapshot' = Some(settings)
           /\ IF \/ settings.AZURE_FOUNDRY_ENDPOINT = ""
                 \/ settings.AZURE_FOUNDRY_API_KEY = ""
                 \/ ~constructed
                  THEN UNCHANGED <<cache, built, bound>>
                  ELSE /\ built < MaxClients
                       /\ built' = built + 1
                       /\ bound' = [bound EXCEPT ![built + 1] =
                                        AzureOpenAIForSettings(settings)]
                       /\ cache' = built + 1
    /\ UNCHANGED <<foundry, terminal, environ, boot, config, authReject, pc, req,
                   held, cleared, failed, busy, sent, ncalls, result, resp>>

\* clear_azure_client_cache() of app/dependencies.py
dependencies_clear_azure_client_cache ==
    /\ cache # NoClient
    /\ cache' = NoClient
    /\ cleared' = TRUE
    /\ UNCHANGED <<settings_cache, snapshot, foundry, terminal, environ, boot,
                   config, authReject, pc, req, held, built, bound, failed, busy,
                   sent, ncalls, result, resp>>

\* get_settings.cache_clear()
get_settings_cache_clear ==
    /\ settings_cache # None
    /\ settings_cache' = None
    /\ UNCHANGED <<snapshot, foundry, terminal, environ, boot, config, authReject,
                   pc, req, held, cache, built, bound, cleared, failed, busy,
                   sent, ncalls, result, resp>>

InitSettings ==
    /\ Init
    /\ authReject = 401

NextSettings ==
    \/ \E constructed \in BOOLEAN : dependencies_get_azure_openai_client(constructed)
    \/ dependencies_clear_azure_client_cache
    \/ get_settings_cache_clear
    \/ \E name \in DOMAIN ChangedValue : SetEnv(name)

SpecSettings == InitSettings /\ [][NextSettings]_vars

\* Concurrent requests with plain bodies. The interleavings do not depend
\* on which of the two settings is empty nor on the status of the
\* framework's rejection, so one of each is explored here.
InitConc ==
    /\ Init
    /\ config.AZURE_FOUNDRY_API_KEY # ""
    /\ authReject = 401

\* The steps of Step, with MaxConcClients as the limit on constructions.
NextConc ==
    \E r \in Reqs :
        \/ \E endpoint \in Endpoints : Arrive(r, endpoint)
        \/ health_check(r)
        \/ root(r)
        \/ list_models(r)
        \/ \E header \in PlainHeaders : ResolveToken(r, header)
        \/ CacheLookup(r)
        \/ \E constructed \in BOOLEAN :
               /\ built < MaxConcClients
               /\ get_azure_openai_client(r, constructed)
        \/ \E body \in PlainBodies : RequestValidation(r, body)
        \/ \E body \in PlainBodies : chat_completion(r, body)
        \/ \E outcome \in PlainOutcomes : chat_completion_return(r, outcome)
        \/ \E body \in PlainBodies : generate_text(r, body)
        \/ \E outcome \in PlainOutcomes : generate_text_return(r, outcome)
        \/ Forget(r)

SpecConc == InitConc /\ [][NextConc]_vars

(***************************************************************************)
(* scripts/chat_terminal.py: the ChatClient of the terminal program, driven *)
(* by the lines its run loop reads.                                         *)
(***************************************************************************)
\* ChatClient.send_chat_message, called by the run loop in chat mode: the
\* user message is appended, the whole history is posted, and the assistant
\* message is appended when the answer is a 200 whose body has a choice;
\* any other answer and any exception return a failure.
send_chat_message(user_message, answer) ==
    /\ terminal.mode = "chat"
    /\ Len(terminal.chat_history) + 2 <= MaxHistory
    /\ LET history == Append(terminal.chat_history,
                             [role |-> "user", content |-> user_message])
       IN  terminal' =
               [terminal EXCEPT
                   !.payload = [endpoint |-> "chat", messages |-> history,
                                prompt |-> ""],
                   !.chat_history =
                       IF answer.kind = "answer" /\ answer.status = 200
                                                 /\ answer.choices # <<>>
                           THEN Append(history, [role |-> "assistant",
                                                 content |-> answer.choices[1]])
                           ELSE history]
    /\ UNCHANGED <<settings_cache, snapshot, foundry, environ, boot, config,
                   authReject, pc, req, held, cache, built, bound, cleared,
                   failed, busy, sent, ncalls, result, resp>>

\* ChatClient.send_generate_request, called by the run loop in generate
\* mode: the prompt is posted; the history is not involved.
send_generate_request(prompt, answer) ==
    /\ terminal.mode = "generate"
    /\ terminal' = [terminal EXCEPT
                       !.payload = [endpoint |-> "generate", messages |-> <<>>,
                                    prompt |-> prompt]]
    /\ UNCHANGED <<settings_cache, snapshot, foundry, environ, boot, config,
                   authReject, pc, req, held, cache, built, bound, cleared,
                   failed, busy, sent, ncalls, result, resp>>

\* ChatClient.clear_history
clear_history ==
    /\ terminal' = [terminal EXCEPT !.chat_history = <<>>]
    /\ UNCHANGED <<settings_cache, snapshot, foundry, environ, boot, config,
                   authReject, pc, req, held, cache, built, bound, cleared,
                   failed, busy, sent, ncalls, result, resp>>

\* ChatClient.switch_mode
switch_mode ==
    /\ terminal' = [terminal EXCEPT
                       !.mode = IF terminal.mode = "chat" THEN "generate" ELSE "chat"]
    /\ UNCHANGED <<settings_cache, snapshot, foundry, environ, boot, config,
                   authReject, pc, req, held, cache, built, bound, cleared,
                   failed, busy, sent, ncalls, result, resp>>

InitTerminal ==
    /\ Init
    /\ authReject = 401
    /\ environ = CHOOSE e \in StartEnvirons : TRUE

NextTerminal ==
    \/ \E c \in Contents, answer \in TerminalAnswers : send_chat_message(c, answer)
    \/ \E c \in Contents, answer \in TerminalAnswers : send_generate_request(c, answer)
    \/ clear_history
    \/ switch_mode

SpecTerminal == InitTerminal /\ [][NextTerminal]_vars

\* Concurrent chat requests with a valid token and a valid body, with
\* endpoint and key configured: lookups, constructions, calls and clears.
ValidBody == [NoBody EXCEPT !.message = Some("hello")]

InitRace ==
    /\ InitConc
    /\ config.AZURE_FOUNDRY_ENDPOINT # ""

NextRace ==
    \E r \in Reqs :
        \/ Arrive(r, "chat")
        \/ ResolveToken(r, Some("test-token-12345"))
        \/ CacheLookup(r)
        \/ \E constructed \in BOOLEAN : get_azure_openai_client(r, constructed)
        \/ chat_completion(r, ValidBody)
        \/ \E outcome \in PlainOutcomes : chat_completion_return(r, outcome)
        \/ Forget(r)

SpecRace == InitRace /\ [][NextRace]_vars

(***************************************************************************)
(* Properties.                                                             *)
(***************************************************************************)
Answered(r) == pc[r] = "done"
Unauthenticated(r) ==
    /\ Answered(r)
    /\ req[r].endpoint \in ProtectedEndpoints
    /\ req[r].auth \in {None, Some("")}
CallIssued(r) == pc[r] \in {"calling", "done"} /\ ncalls[r] > 0
Contains(detail, token) == \E i \in DOMAIN detail : detail[i] = token

\* C1: a request to a protected endpoint without an Authorization header or
\* with an empty bearer credential is answered with 401 and causes no
\* upstream call.
C1_Unauthenticated401 ==
    \A r \in Reqs :
        Unauthenticated(r) => resp[r].status = 401 /\ ncalls[r] = 0

\* C2: every upstream call of the chat and the generate handler carries
\* stream = false, also when the caller's body says stream = true.
C2_StreamAlwaysFalse ==
    \A r \in Reqs : CallIssued(r) => sent[r].stream = FALSE

C2_Witness ==
    \E r \in Reqs :
        /\ pc[r] = "calling"
        /\ req[r].body.stream = Some(TRUE)
        /\ sent[r].stream = FALSE

\* The message sequence the caller of the chat endpoint supplied.
Supplied(body) == << [role |-> "user", content |-> body.message[1]] >>

C4_ChoicesPreserved ==
    \A r \in Reqs :
        Answered(r) /\ req[r].endpoint = "chat" /\ resp[r].status = 200
            => /\ "choices" \in DOMAIN resp[r]
               /\ Len(resp[r].choices) = Len(result[r].choices)
               /\ \A i \in DOMAIN result[r].choices :
                      resp[r].choices[i].index = result[r].choices[i].index

\* C5: an upstream result without usage still gives a successful response
\* whose token count is absent; when such a request does end in an error,
\* the error is the one of the empty choices list, not of the usage.
C5_MissingUsageTolerated ==
    \A r \in Reqs :
        Answered(r) /\ result[r].kind = "ok" /\ result[r].usage = None
            => IF result[r].choices # <<>>
                   THEN resp[r].status = 200 /\ resp[r].tokens_used = None
                   ELSE /\ resp[r].status = 500
                        /\ Contains(resp[r].detail, "list index out of range")

C5_Witness ==
    \E r \in Reqs :
        /\ Answered(r) /\ req[r].endpoint = "generate"
        /\ result[r].kind = "ok" /\ result[r].usage = None
        /\ resp[r].status = 200 /\ resp[r].tokens_used = None
        /\ resp[r].generated_text = "A0"

\* C6: a request to a protected endpoint whose max_tokens is 0 or above
\* 4000 is answered with 422 and causes no upstream call.
OutOfRange(body) ==
    /\ body.max_tokens # None
    /\ body.max_tokens[1] = 0 \/ body.max_tokens[1] > 4000

C6_MaxTokensRejected ==
    \A r \in Reqs :
        /\ pc[r] \in {"calling", "done"}
        /\ req[r].endpoint \in ProtectedEndpoints
        /\ OutOfRange(req[r].body)
        => pc[r] = "done" /\ resp[r].status = 422 /\ ncalls[r] = 0

C8_FailureClearsCache ==
    [][\A r \in Reqs :
          /\ (pc[r] = "calling" /\ pc'[r] = "done" /\ result'[r].kind # "ok")
                => cache' = NoClient /\ resp'[r].status = 500
          /\ (pc[r] \in {"lookup", "building"} /\ pc'[r] = "resolved")
                => held'[r] # NoClient /\ held'[r] \notin failed]_vars

C8_Witness ==
    \E r \in Reqs :
        /\ pc[r] = "resolved"
        /\ failed # {}
        /\ held[r] \notin failed
        /\ cache = held[r]

\* C9: when the upstream call times out the request is answered with 504
\* and exactly one upstream attempt was made.
C9_Timeout504 ==
    \A r \in Reqs :
        Answered(r) /\ result[r].kind = "timeout"
            => resp[r].status = 504 /\ ncalls[r] = 1

\* C10: GET /health answers 200 in every state and neither constructs a
\* client nor calls upstream nor touches the cache.
C10_HealthAlways200 ==
    [][\A r \in Reqs :
          (pc[r] = "arrived" /\ req[r].endpoint = "health" /\ pc'[r] = "done")
              => /\ resp'[r].status = 200
                 /\ cache' = cache /\ built' = built
                 /\ ncalls' = ncalls /\ held' = held]_vars

C10_Witness ==
    \E r \in Reqs :
        /\ Answered(r) /\ req[r].endpoint = "health" /\ resp[r].status = 200
        /\ config.AZURE_FOUNDRY_ENDPOINT # ""
        /\ cache = NoClient /\ failed # {}

\* C11: GET /api/v1/models answers 200 with the catalog of the two models
\* "gpt-4.1" and "gpt-35-turbo", in this order, whatever requests and
\* upstream failures came before; the answer equals every other answer to
\* the same route that exists at that time; the step issues no upstream
\* call and leaves the cache and the clients alone.
C11_ModelsFixedCatalog ==
    [][\A r \in Reqs :
          (pc[r] = "arrived" /\ req[r].endpoint = "models" /\ pc'[r] = "done")
              => /\ resp'[r].status = 200
                 /\ Len(resp'[r].body) = 2
                 /\ resp'[r].body[1].name = "gpt-4.1"
                 /\ resp'[r].body[2].name = "gpt-35-turbo"
                 /\ \A q \in Reqs :
                        (pc[q] = "done" /\ req[q].endpoint = "models")
                            => resp[q] = resp'[r]
                 /\ ncalls' = ncalls /\ cache' = cache /\ built' = built
                 /\ busy' = busy]_vars

C11_Witness ==
    \E r, q \in Reqs :
        /\ r # q
        /\ Answered(r) /\ req[r].endpoint = "models"
        /\ Answered(q) /\ req[q].endpoint = "models"
        /\ resp[r].status = 200 /\ resp[q] = resp[r]
        /\ failed # {} /\ cache = NoClient

\* C12 as stated: as long as no upstream call failed and the cache was not
\* cleared, at most one client was constructed and every request that holds
\* a client holds that one.
C12_ConstructedOnce ==
    ~cleared =>
        /\ built <= 1
        /\ \A r \in Reqs : held[r] # NoClient => held[r] = 1

\* C12 amended: as long as the cache was not cleared, a client is
\* constructed only by a request whose cache lookup missed, the cache keeps
\* the first client stored in it, and every request whose lookup finds the
\* cache filled receives the cached client. Requests whose lookups missed
\* while the cache was still empty construct one client each.
C12_ConstructedOnMissOnly ==
    [][~cleared' =>
          /\ built' # built =>
                 /\ built' = built + 1
                 /\ \E r \in Reqs : /\ pc[r] = "building"
                                     /\ pc'[r] = "resolved"
                                     /\ held'[r] = built'
          /\ cache # NoClient => cache' = cache
          /\ cache = NoClient /\ cache' # NoClient => cache' = built'
          /\ \A r \in Reqs :
                 (pc[r] = "lookup" /\ pc'[r] # "lookup" /\ cache # NoClient)
                     => pc'[r] = "resolved" /\ held'[r] = cache /\ built' = built]_vars

C12_Witness ==
    \E r, q \in Reqs :
        /\ ~cleared /\ built = 2 /\ cache = 1
        /\ pc[r] = "resolved" /\ held[r] = 1
        /\ pc[q] = "resolved" /\ held[q] = 2

C14_RebuildUsesCurrentEnv ==
    [][\A r \in Reqs :
          (cleared /\ pc[r] = "building" /\ pc'[r] = "resolved")
              => bound'[held'[r]] = AzureOpenAI(Config(environ))]_vars

\* The entries of a list of validation messages that name a field.
EntriesFor(errors, field) ==
    {i \in DOMAIN errors : errors[i] = <<field, "is required">>}

\* C15: validate_required_settings returns one entry for each of endpoint,
\* key and deployment name that is empty and none for one that is set; it
\* returns in every case and leaves the settings as they were.
C15_ValidateListsMissing ==
    [][(boot.stage = "loaded" /\ boot'.stage # "loaded") =>
          /\ boot'.stage = "validated"
          /\ boot'.settings = boot.settings
          /\ \A field \in RequiredFields :
                 Cardinality(EntriesFor(boot'.errors, field)) =
                     IF boot.settings[1][field] = "" THEN 1 ELSE 0
          /\ Len(boot'.errors) =
                 Cardinality({f \in RequiredFields : boot.settings[1][f] = ""})]_vars

C15_Witness ==
    /\ boot.stage = "validated"
    /\ boot.settings[1].AZURE_FOUNDRY_ENDPOINT # ""
    /\ boot.settings[1].AZURE_FOUNDRY_API_KEY = ""
    /\ boot.settings[1].AZURE_FOUNDRY_DEPLOYMENT_NAME = ""
    /\ boot.errors = << <<"AZURE_FOUNDRY_API_KEY", "is required">>,
                        <<"AZURE_FOUNDRY_DEPLOYMENT_NAME", "is required">> >>

C17_ParametersForwarded ==
    \A r \in Reqs :
        CallIssued(r) =>
            /\ sent[r].max_tokens =
                   IF req[r].body.max_tokens # None
                       THEN req[r].body.max_tokens ELSE Some(DefaultMaxTokens)
            /\ sent[r].temperature =
                   IF req[r].body.temperature # None
                       THEN req[r].body.temperature ELSE Some(DefaultTemperature)
            /\ req[r].body.top_p # None
                   => sent[r].top_p = req[r].body.top_p[1]
            /\ req[r].body.frequency_penalty # None
                   => sent[r].frequency_penalty = req[r].body.frequency_penalty[1]
            /\ req[r].body.presence_penalty # None
                   => sent[r].presence_penalty = req[r].body.presence_penalty[1]

RaisedMessage(r) ==
    IF result[r].kind = "status"
        THEN <<"Azure Foundry API error:", ToString(result[r].status)>>
    ELSE IF result[r].kind = "timeout"
        THEN <<"Request timed out.">>
    ELSE IF result[r].kind = "ok" /\ result[r].choices = <<>>
        THEN <<"list index out of range">>
    ELSE <<>>

\* C19: when the handler of a request met an exception after its
\* dependencies were resolved - the upstream call raised, or the result has
\* no choices - the request is answered with status 500 and a detail that
\* is the handler's prefix followed by the text of the exception, and the
\* event loop is free for the next request.
C19_HandlerExceptionIs500 ==
    \A r \in Reqs :
        RaisedMessage(r) # <<>> =>
            /\ Answered(r) /\ busy # r
            /\ resp[r].status = 500
            /\ resp[r].detail = <<ErrorPrefix(req[r].endpoint)>> \o RaisedMessage(r)

\* A request is answered with 200 by a second client after an earlier
\* request met an empty choices list.
C19_Witness ==
    \E r \in Reqs :
        /\ cleared /\ failed = {} /\ built = 2
        /\ Answered(r) /\ resp[r].status = 200

\* C20: a request to a protected route with a non-empty bearer credential,
\* whatever its value, passes the token guard: the guard returns the
\* credential as it came, and the request is not answered with 401 or 403
\* but goes on to the client dependency and the handler.
C20_TokenPresenceOnly ==
    \A r \in Reqs :
        (req[r].auth # None /\ req[r].auth # Some("")) =>
            /\ req[r].token = req[r].auth[1]
            /\ pc[r] \in {"lookup", "building", "resolved", "calling", "done"}
            /\ Answered(r) => resp[r].status \notin {401, 403}

C20_Witness ==
    \E r \in Reqs :
        /\ pc[r] = "calling"
        /\ req[r].auth = Some("test-key")
        /\ req[r].token = "test-key"

\* C21: get_settings returns the cached snapshot as it is, whatever the
\* environment holds by then; the settings cache changes only when it is
\* empty and a call fills it or when it is cleared explicitly; clearing the
\* client cache leaves it alone.
C21_SettingsSnapshotStable ==
    [][/\ (settings_cache # None /\ settings_cache' # None)
              => settings_cache' = settings_cache
       /\ (settings_cache # None /\ snapshot' # snapshot)
              => snapshot' = settings_cache
       /\ (cache # NoClient /\ cache' = NoClient)
              => settings_cache' = settings_cache /\ snapshot' = snapshot]_vars

C21_Witness ==
    /\ cleared /\ built = 2 /\ cache = 2
    /\ settings_cache # None /\ snapshot = settings_cache
    /\ settings_cache[1] # Settings(environ)
    /\ bound[2] = bound[1]

\* The clients that are referenced: the cached one and those injected into
\* requests.
LiveClients == ({cache} \cup {held[r] : r \in Reqs}) \ {NoClient}

C23_HealthAnsweredDuringCall ==
    \A r, q \in Reqs :
        (pc[r] = "calling" /\ pc[q] = "arrived" /\ req[q].endpoint = "health")
            => ENABLED health_check(q)

\* C24 (as stated): after an upstream answer with a non-success status the
\* method returned nothing and the raised error carries the upstream status
\* code and the upstream body.
C24_ErrorCarriesStatusAndBody ==
    (foundry.status # 0 /\ foundry.status \notin 200..299)
        => /\ foundry.returned = None
           /\ Contains(foundry.raised, ToString(foundry.status))
           /\ Contains(foundry.raised, foundry.text)

\* C24: a result is returned only for status 200; after any other status
\* (201 and 204 included) the method returned nothing and raised
\* "Azure Foundry API error: <status>", which carries the status code alone,
\* while the upstream body went to the error log.
C24_ErrorCarriesStatusOnly ==
    /\ foundry.returned # None => foundry.status = 200
    /\ (foundry.status \notin {0, 200})
           => /\ foundry.returned = None
              /\ foundry.stage = "raised"
              /\ foundry.raised =
                     <<"Azure Foundry API error:", ToString(foundry.status)>>
              /\ foundry.logged =
                     <<"Azure Foundry API error:", ToString(foundry.status),
                       "-", foundry.text>>

C24_Witness ==
    /\ foundry.method = "embeddings"
    /\ foundry.stage = "raised"
    /\ foundry.status = 429
    /\ foundry.text = "quota exceeded"

C26_RebuildRaceHarmless ==
    [][\A r \in Reqs :
          /\ (pc[r] = "building" /\ pc'[r] = "resolved")
                => /\ held'[r] # NoClient
                   /\ bound'[held'[r]] = AzureOpenAI(config)
                   /\ cache' # NoClient
                   /\ cache # NoClient => cache' = cache
                   /\ cache = NoClient => cache' = held'[r]
          /\ (pc[r] = "lookup" /\ pc'[r] = "resolved")
                => held'[r] = cache /\ bound[cache] = AzureOpenAI(config)
          /\ pc'[r] \in {"resolved", "calling"}
                => held'[r] # NoClient /\ bound'[held'[r]] # NoBinding
          /\ (pc[r] # "done" /\ pc'[r] = "done") => resp'[r].status # 0]_vars

\* Two requests missed the cache after a clear and built one client each:
\* the cache kept the first, which a third lookup would return.
C26_Witness ==
    /\ cleared /\ failed # {}
    /\ \E r, q \in Reqs :
           /\ pc[r] = "resolved" /\ pc[q] = "resolved"
           /\ held[r] # held[q]
           /\ held[r] \notin failed /\ held[q] \notin failed
           /\ cache = held[r]

\* C27: the model field of a successful chat or generate response equals
\* the model that was named in the upstream call of that request.
C27_ResponseModelIsSentModel ==
    \A r \in Reqs :
        (/\ Answered(r)
         /\ req[r].endpoint \in ProtectedEndpoints
         /\ resp[r].status = 200)
            => resp[r].model = sent[r].model

\* C28: a request to a protected endpoint without a bearer token is answered
\* by the token guard, in the step in which it leaves the arrival state:
\* the answer is the authentication error also when endpoint or key is not
\* configured, and the client factory is not entered (no lookup, no
\* construction, no client handed out).
C28_TokenGuardBeforeFactory ==
    [][\A r \in Reqs :
          (/\ pc[r] = "arrived" /\ pc'[r] # "arrived"
           /\ req'[r].endpoint \in ProtectedEndpoints
           /\ req'[r].auth \in {None, Some("")})
              => /\ pc'[r] = "done"
                 /\ resp'[r].status = authReject
                 /\ resp'[r].detail = <<"Not authenticated">>
                 /\ resp'[r].detail # ConfigMissingDetail
                 /\ built' = built /\ cache' = cache /\ held' = held]_vars

C28_Witness ==
    \E r \in Reqs :
        /\ Unauthenticated(r)
        /\ config.AZURE_FOUNDRY_ENDPOINT = "" /\ config.AZURE_FOUNDRY_API_KEY = ""
        /\ resp[r].status = authReject
        /\ built = 0

\* C29: the client cache changes only when it is empty and a request that
\* missed it stores the client it constructed, or when the except path of
\* the chat or the generate handler empties it on the way to a 500 answer.
\* A request that ends in any other way - an open route, a rejected token, a
\* body that fails validation, a failed construction, a successful chat or
\* generate answer - leaves the cache as it was.
C29_CacheChangesOnlyByFillOrExcept ==
    [][/\ cache' # cache
          => \/ /\ cache = NoClient
                /\ \E r \in Reqs : /\ pc[r] = "building" /\ pc'[r] = "resolved"
                                    /\ cache' = held'[r] /\ built' = built + 1
             \/ /\ cache' = NoClient
                /\ \E r \in Reqs : /\ pc[r] = "calling" /\ pc'[r] = "done"
                                    /\ req[r].endpoint \in ProtectedEndpoints
                                    /\ resp'[r].status = 500
       /\ \A r \in Reqs :
             (/\ pc[r] # "done" /\ pc'[r] = "done"
              /\ \/ req'[r].endpoint \in OpenEndpoints
                 \/ pc[r] \in {"arrived", "building", "resolved"}
                 \/ resp'[r].status = 200)
                => cache' = cache]_vars

\* The cache was emptied by an except path and filled again by the next
\* request, which was then answered successfully.
C29_Witness ==
    /\ cleared /\ built = 2 /\ cache = 2
    /\ \E r \in Reqs : /\ Answered(r) /\ resp[r].status = 200
                        /\ req[r].endpoint = "generate"

\* C30: the chat history of the terminal client alternates user, assistant,
\* user, ... starting with user, and so do the messages of every chat post.
C30_HistoryAlternates ==
    /\ \A i \in DOMAIN terminal.chat_history :
           terminal.chat_history[i].role =
               IF i % 2 = 1 THEN "user" ELSE "assistant"
    /\ \A i \in DOMAIN terminal.payload.messages :
           i > 1 => ~ /\ terminal.payload.messages[i].role = "user"
                      /\ terminal.payload.messages[i - 1].role = "user"

=============================================================================
